---- MODULE Spec2Model ----
(***************************************************************************)
(* Send-side stream and flow-control manager (proto/streams/send.rs).      *)
(*                                                                         *)
(* The manager's own state is next_stream_id and init_window_sz.  The      *)
(* stream records, the stream state machine, the flow-control window, the  *)
(* counts and the prioritizer are collaborators of send.rs; they are       *)
(* modelled at the interface send.rs uses.                                 *)
(***************************************************************************)
EXTENDS Integers, Sequences, FiniteSets, TLC

\* ------------------------------------------------------------------ bounds
\* Number of successful opens explored.
MaxOpens == 2
\* Protocol maximum window size (2^31 - 1), scaled down.
MaxWindow == 2
\* Frames a stream's outbound queue holds at most.
MaxQueue == 1
\* DATA payload sizes and WINDOW_UPDATE increments explored.
DataLens == {1}
Incs == {1, 2}

\* Values a SETTINGS frame carries for SETTINGS_INITIAL_WINDOW_SIZE;
\* None is a frame without the parameter.
None == -1
SettingsVals == {None} \cup (0..MaxWindow)
\* Reasons a caller resets a stream with.
UserReasons == {"Cancel"}
NoReason == "NoReason"

VARIABLES
    is_server,        \* P::is_server()
    next_stream_id,   \* Send.next_stream_id
    init_window_sz,   \* Send.init_window_sz
    counts,           \* Counts: num_send_streams, max_send_streams
    store,            \* Store: stream id -> stream record
    flow,             \* Prioritize.flow: connection-wide credit pool
    issued,           \* ids returned by successful open calls, in order
    inserted,         \* how many issued ids the caller has put in the store
    resets,           \* per tracked stream: effective send_reset calls so far
    ret               \* the last call and what it returned

vars == <<is_server, next_stream_id, init_window_sz, counts, store, flow,
          issued, inserted, resets, ret>>

\* Everything but the record of the last call.
state_vars == <<is_server, next_stream_id, init_window_sz, counts, store, flow,
                issued, inserted, resets>>

\* ------------------------------------------------------- pure helpers
Max(a, b) == IF a >= b THEN a ELSE b

\* ------------------------------------------------------- frames
Frame(kind, eos, len, reason) ==
    [kind |-> kind, eos |-> eos, len |-> len, reason |-> reason]

HeadersFrame(eos) == Frame("Headers", eos, 0, NoReason)
TrailersFrame == Frame("Trailers", TRUE, 0, NoReason)
DataFrame(len, eos) == Frame("Data", eos, len, NoReason)
ResetFrame(reason) == Frame("Reset", FALSE, 0, reason)

\* ------------------------------------------------------- stream state
\* State collaborator (send half and whether the peer closed its half).
send_open(st, eos) ==
    IF st = "Idle"
    THEN [ok |-> TRUE, state |-> IF eos THEN "HalfClosedLocal" ELSE "Open",
          err |-> "Ok"]
    ELSE [ok |-> FALSE, state |-> st, err |-> "UnexpectedFrameType"]

send_close(st) ==
    CASE st = "Open" -> "HalfClosedLocal"
      [] st = "HalfClosedRemote" -> "Closed"
      [] OTHER -> st

recv_close(st) ==
    CASE st = "Open" -> "HalfClosedRemote"
      [] st = "HalfClosedLocal" -> "Closed"
      [] OTHER -> st

is_reset(s) == s.state = "Reset"
is_closed(s) == s.state \in {"Closed", "Reset"}
is_send_streaming(s) == s.state \in {"Open", "HalfClosedRemote"}
set_reset(s, reason) == [s EXCEPT !.state = "Reset", !.reason = reason]

\* ------------------------------------------------------- stream record
Stream_new(init_send_window) ==
    [state |-> "Idle",
     reason |-> NoReason,
     pending_send |-> <<>>,
     send_flow |-> init_send_window,
     buffered_send_data |-> 0,
     send_capacity_inc |-> FALSE,
     requested_send_capacity |-> 0]

\* The last call: its name, the stream it was about, the result it returned
\* (n is the number inside Ready(Some(n)); for send_reset, the number of
\* frames the stream had queued when the call was made), and the state the stream was in
\* when the call was made (for apply_remote_settings: n is the value the
\* frame carried, pre tells whether the frame shrinks or grows the initial
\* window, keeps it the same, or has no value, and visited is the number of
\* streams the growth sweep ran its closure on).
RetV(op, id, val, n, pre, visited) ==
    [op |-> op, id |-> id, val |-> val, n |-> n, pre |-> pre, visited |-> visited]
RetN(op, id, val, n, pre) == RetV(op, id, val, n, pre, 0)
Ret(op, id, val, pre) == RetN(op, id, val, 0, pre)

\* ------------------------------------------------------- FlowControl
available(s) == s.send_flow
claim_capacity(s, amount) == [s EXCEPT !.send_flow = @ - amount]
dec_window(s, sz) == [s EXCEPT !.send_flow = @ - sz]

\* ------------------------------------------------------- Prioritize
queue_frame(s, frame) == [s EXCEPT !.pending_send = Append(@, frame)]

clear_queue(s) == [s EXCEPT !.pending_send = <<>>, !.buffered_send_data = 0]

assign_connection_capacity(fl, inc) == fl + inc

Prioritize_reserve_capacity(s, cap) == [s EXCEPT !.requested_send_capacity = cap]

\* ------------------------------------------------------- Send::capacity
\* capacity without the comparison that keeps it from going below zero.
capacity_unclamped(s) == available(s) - s.buffered_send_data

capacity(s) ==
    LET avail == available(s)
        buffered == s.buffered_send_data
    IN IF avail <= buffered THEN 0 ELSE avail - buffered

Prioritize_recv_stream_window_update(s, inc) ==
    IF available(s) + inc > MaxWindow
    THEN [err |-> "FlowControlError", stream |-> s]
    ELSE LET s1 == [s EXCEPT !.send_flow = @ + inc]
         IN [err |-> "Ok",
             stream |-> [s1 EXCEPT !.send_capacity_inc =
                                      @ \/ capacity(s1) > capacity(s)]]


\* ------------------------------------------------------- connection driver
\* A connection-level error ends the connection: the driver that called
\* apply_remote_settings or recv_connection_window_update stops calling in.
live ==
    ~ \/ ret.val = "Connection(FlowControlError)"
      \/ ret.op = "recv_connection_window_update" /\ ret.val = "FlowControlError"

\* ------------------------------------------------------- Send::new
first_stream_id == IF is_server THEN 2 ELSE 1

Init ==
    /\ is_server \in BOOLEAN
    /\ next_stream_id = first_stream_id
    /\ init_window_sz = 1
    /\ \E m \in 0..1 : counts = [num_send_streams |-> 0, max_send_streams |-> m]
    /\ store = <<>>
    /\ flow = 1
    /\ issued = <<>>
    /\ inserted = 0
    /\ resets = <<>>
    /\ ret = Ret("new", 0, "Ok", "-")

\* ------------------------------------------------------- Counts
can_inc_num_send_streams == counts.max_send_streams > counts.num_send_streams
inc_num_send_streams == [counts EXCEPT !.num_send_streams = @ + 1]

\* ------------------------------------------------------- Send::open
ensure_can_open == IF is_server THEN "UnexpectedFrameType" ELSE "Ok"

StreamId_increment(id) == id + 2

\* open that hands out the id without advancing next_stream_id.
Send_open_same_id ==
    IF ensure_can_open # "Ok"
    THEN [val |-> ensure_can_open, id |-> 0,
          next_stream_id |-> next_stream_id, counts |-> counts]
    ELSE IF ~can_inc_num_send_streams
    THEN [val |-> "Rejected", id |-> 0,
          next_stream_id |-> next_stream_id, counts |-> counts]
    ELSE [val |-> "Ok", id |-> next_stream_id,
          next_stream_id |-> next_stream_id,
          counts |-> inc_num_send_streams]

\* open that takes the id before it looks at the concurrent-stream limit.
Send_open_eager ==
    IF ensure_can_open # "Ok"
    THEN [val |-> ensure_can_open, id |-> 0,
          next_stream_id |-> next_stream_id, counts |-> counts]
    ELSE IF ~can_inc_num_send_streams
    THEN [val |-> "Rejected", id |-> 0,
          next_stream_id |-> StreamId_increment(next_stream_id), counts |-> counts]
    ELSE [val |-> "Ok", id |-> next_stream_id,
          next_stream_id |-> StreamId_increment(next_stream_id),
          counts |-> inc_num_send_streams]

\* open that looks at the concurrent-stream limit before the role.
Send_open_limit_first ==
    IF ~can_inc_num_send_streams
    THEN [val |-> "Rejected", id |-> 0,
          next_stream_id |-> next_stream_id, counts |-> counts]
    ELSE IF ensure_can_open # "Ok"
    THEN [val |-> ensure_can_open, id |-> 0,
          next_stream_id |-> next_stream_id, counts |-> counts]
    ELSE [val |-> "Ok", id |-> next_stream_id,
          next_stream_id |-> StreamId_increment(next_stream_id),
          counts |-> inc_num_send_streams]

\* The call: what it returns, and next_stream_id and the counts after it.
Send_open ==
    IF ensure_can_open # "Ok"
    THEN [val |-> ensure_can_open, id |-> 0,
          next_stream_id |-> next_stream_id, counts |-> counts]
    ELSE IF ~can_inc_num_send_streams
    THEN [val |-> "Rejected", id |-> 0,
          next_stream_id |-> next_stream_id, counts |-> counts]
    ELSE [val |-> "Ok", id |-> next_stream_id,
          next_stream_id |-> StreamId_increment(next_stream_id),
          counts |-> inc_num_send_streams]

open ==
    /\ live
    /\ Len(issued) < MaxOpens
    /\ LET r == Send_open
       IN /\ ret' = Ret("open", r.id, r.val, "-")
          /\ next_stream_id' = r.next_stream_id
          /\ counts' = r.counts
          /\ issued' = IF r.val = "Ok" THEN Append(issued, r.id) ELSE issued
    /\ UNCHANGED <<is_server, init_window_sz, store, flow, inserted, resets>>

\* ------------------------------------------------------- Store
\* The caller of open creates the stream record for the id it was given
\* (Stream::new with the current initial send window) and stores it.
store_insert ==
    /\ live
    /\ inserted < Len(issued)
    /\ LET id == issued[inserted + 1]
       IN /\ store' = store @@ (id :> Stream_new(init_window_sz))
          /\ resets' = resets @@ (id :> 0)
          /\ ret' = Ret("store_insert", id, "Ok", "-")
    /\ inserted' = inserted + 1
    /\ UNCHANGED <<is_server, next_stream_id, init_window_sz, counts, flow, issued>>

\* A closed stream whose queue is flushed is released: it leaves the store
\* and gives its concurrent-stream slot back.
release(id) ==
    /\ live
    /\ is_closed(store[id])
    /\ store[id].pending_send = <<>>
    /\ store' = [i \in DOMAIN store \ {id} |-> store[i]]
    /\ counts' = [counts EXCEPT !.num_send_streams = @ - 1]
    /\ resets' = [i \in DOMAIN resets \ {id} |-> resets[i]]
    /\ ret' = Ret("release", id, "Ok", store[id].state)
    /\ UNCHANGED <<is_server, next_stream_id, init_window_sz, flow, issued,
                   inserted>>

\* The peer ends its half of the stream.
peer_close(id) ==
    /\ live
    /\ store[id].state \in {"Open", "HalfClosedLocal"}
    /\ store' = [store EXCEPT ![id].state = recv_close(@)]
    /\ ret' = Ret("peer_close", id, "Ok", store[id].state)
    /\ UNCHANGED <<is_server, next_stream_id, init_window_sz, counts, flow,
                   issued, inserted, resets>>

\* ------------------------------------------------------- Send::send_headers
\* send_headers that queues the frame before it tries the transition.
Send_send_headers_queue_first(s, end_stream) ==
    LET t == send_open(s.state, end_stream)
        q == queue_frame(s, HeadersFrame(end_stream))
    IN IF ~t.ok
       THEN [err |-> t.err, stream |-> q]
       ELSE [err |-> "Ok", stream |-> [q EXCEPT !.state = t.state]]

Send_send_headers(s, end_stream) ==
    LET t == send_open(s.state, end_stream)
    IN IF ~t.ok
       THEN [err |-> t.err, stream |-> s]
       ELSE [err |-> "Ok",
             stream |-> queue_frame([s EXCEPT !.state = t.state],
                                    HeadersFrame(end_stream))]

send_headers(id, end_stream) ==
    LET r == Send_send_headers(store[id], end_stream)
    IN /\ live
       /\ store' = [store EXCEPT ![id] = r.stream]
       /\ ret' = Ret("send_headers", id, r.err, store[id].state)
       /\ UNCHANGED <<is_server, next_stream_id, init_window_sz, counts, flow,
                      issued, inserted, resets>>

\* ------------------------------------------------------- Send::send_reset
\* send_reset without the "don't double reset" guard.
Send_send_reset_double(s, fl, reason) ==
    IF is_closed(s) /\ ~is_reset(s) /\ s.pending_send = <<>>
    THEN [stream |-> s, flow |-> fl, effective |-> FALSE, assigned |-> 0,
          at_assign |-> s]
    ELSE LET s1 == set_reset(s, reason)
             s2 == clear_queue(s1)
             avail == available(s2)
             s3 == claim_capacity(s2, avail)
             s4 == queue_frame(s3, ResetFrame(reason))
         IN [stream |-> s4, flow |-> assign_connection_capacity(fl, avail),
             effective |-> TRUE, assigned |-> avail, at_assign |-> s4]

\* send_reset that reads the amount to reassign after it reclaimed the window.
Send_send_reset_read_late(s, fl, reason) ==
    IF is_reset(s)
    THEN [stream |-> s, flow |-> fl, effective |-> FALSE, assigned |-> 0,
          at_assign |-> s]
    ELSE IF is_closed(s) /\ s.pending_send = <<>>
    THEN [stream |-> s, flow |-> fl, effective |-> FALSE, assigned |-> 0,
          at_assign |-> s]
    ELSE LET s1 == set_reset(s, reason)
             s2 == clear_queue(s1)
             s3 == claim_capacity(s2, available(s2))
             avail == available(s3)
             s4 == queue_frame(s3, ResetFrame(reason))
         IN [stream |-> s4, flow |-> assign_connection_capacity(fl, avail),
             effective |-> TRUE, assigned |-> avail, at_assign |-> s4]

\* send_reset that leaves the frames already queued in front of RST_STREAM.
Send_send_reset_keep_queue(s, fl, reason) ==
    IF is_reset(s)
    THEN [stream |-> s, flow |-> fl, effective |-> FALSE, assigned |-> 0,
          at_assign |-> s]
    ELSE IF is_closed(s) /\ s.pending_send = <<>>
    THEN [stream |-> s, flow |-> fl, effective |-> FALSE, assigned |-> 0,
          at_assign |-> s]
    ELSE LET s1 == set_reset(s, reason)
             avail == available(s1)
             s3 == claim_capacity(s1, avail)
             s4 == queue_frame(s3, ResetFrame(reason))
         IN [stream |-> s4, flow |-> assign_connection_capacity(fl, avail),
             effective |-> TRUE, assigned |-> avail, at_assign |-> s4]

\* send_reset that reassigns the reclaimed credit before it queues RST_STREAM.
Send_send_reset_assign_first(s, fl, reason) ==
    IF is_reset(s)
    THEN [stream |-> s, flow |-> fl, effective |-> FALSE, assigned |-> 0,
          at_assign |-> s]
    ELSE IF is_closed(s) /\ s.pending_send = <<>>
    THEN [stream |-> s, flow |-> fl, effective |-> FALSE, assigned |-> 0,
          at_assign |-> s]
    ELSE LET s1 == set_reset(s, reason)
             s2 == clear_queue(s1)
             avail == available(s2)
             s3 == claim_capacity(s2, avail)
             s4 == queue_frame(s3, ResetFrame(reason))
         IN [stream |-> s4, flow |-> assign_connection_capacity(fl, avail),
             effective |-> TRUE, assigned |-> avail, at_assign |-> s3]

\* The call on one stream record and the connection pool.  effective tells
\* whether the guards let the reset through; assigned is the amount handed
\* to assign_connection_capacity and at_assign the stream as it is then.
Send_send_reset(s, fl, reason) ==
    IF is_reset(s)
    THEN [stream |-> s, flow |-> fl, effective |-> FALSE, assigned |-> 0,
          at_assign |-> s]
    ELSE IF is_closed(s) /\ s.pending_send = <<>>
    THEN [stream |-> s, flow |-> fl, effective |-> FALSE, assigned |-> 0,
          at_assign |-> s]
    ELSE LET s1 == set_reset(s, reason)
             s2 == clear_queue(s1)
             avail == available(s2)
             s3 == claim_capacity(s2, avail)
             s4 == queue_frame(s3, ResetFrame(reason))
         IN [stream |-> s4, flow |-> assign_connection_capacity(fl, avail),
             effective |-> TRUE, assigned |-> avail, at_assign |-> s4]

send_reset(id, reason) ==
    LET r == Send_send_reset(store[id], flow, reason)
    IN /\ live
       /\ store' = [store EXCEPT ![id] = r.stream]
       /\ flow' = r.flow
       /\ resets' = [resets EXCEPT ![id] = IF r.effective THEN @ + 1 ELSE @]
       /\ ret' = RetN("send_reset", id, "Ok", Len(store[id].pending_send),
                      store[id].state)
       /\ UNCHANGED <<is_server, next_stream_id, init_window_sz, counts,
                      issued, inserted>>

\* ------------------------------------------------------- Send::send_data
\* Delegated to Prioritize::send_data.
Prioritize_send_data(s, len, end_stream) ==
    IF ~is_send_streaming(s)
    THEN [err |-> IF is_closed(s) THEN "InactiveStreamId" ELSE "UnexpectedFrameType",
          stream |-> s]
    ELSE [err |-> "Ok",
          stream |-> queue_frame(
                        [s EXCEPT !.buffered_send_data = @ + len,
                                  !.state = IF end_stream THEN send_close(@) ELSE @],
                        DataFrame(len, end_stream))]

send_data(id, len, end_stream) ==
    LET r == Prioritize_send_data(store[id], len, end_stream)
    IN /\ live
       /\ Len(store[id].pending_send) < MaxQueue
       /\ store' = [store EXCEPT ![id] = r.stream]
       /\ ret' = Ret("send_data", id, r.err, store[id].state)
       /\ UNCHANGED <<is_server, next_stream_id, init_window_sz, counts, flow,
                      issued, inserted, resets>>

\* ------------------------------------------------------- Send::send_trailers
\* send_trailers without the is_send_streaming check.
Send_send_trailers_unchecked(s) ==
    LET s1 == [s EXCEPT !.state = send_close(@)]
        s2 == queue_frame(s1, TrailersFrame)
    IN [err |-> "Ok", stream |-> Prioritize_reserve_capacity(s2, 0)]

Send_send_trailers(s) ==
    IF ~is_send_streaming(s)
    THEN [err |-> "UnexpectedFrameType", stream |-> s]
    ELSE LET s1 == [s EXCEPT !.state = send_close(@)]
             s2 == queue_frame(s1, TrailersFrame)
         IN [err |-> "Ok", stream |-> Prioritize_reserve_capacity(s2, 0)]

send_trailers(id) ==
    LET r == Send_send_trailers(store[id])
    IN /\ live
       /\ store' = [store EXCEPT ![id] = r.stream]
       /\ ret' = Ret("send_trailers", id, r.err, store[id].state)
       /\ UNCHANGED <<is_server, next_stream_id, init_window_sz, counts, flow,
                      issued, inserted, resets>>

\* ------------------------------------------------------- Send::poll_complete
\* Delegated to Prioritize::poll_complete: the frame at the head of a
\* stream's queue goes to the codec; a DATA frame needs, and consumes,
\* the stream's credit.
Prioritize_can_send(s) ==
    /\ s.pending_send # <<>>
    /\ Head(s.pending_send).len <= Max(0, available(s))

Prioritize_pop_frame(s) ==
    LET frame == Head(s.pending_send)
    IN [s EXCEPT !.pending_send = Tail(@),
                 !.send_flow = @ - frame.len,
                 !.buffered_send_data = @ - frame.len]

poll_complete(id) ==
    LET s == store[id]
    IN /\ live
       /\ Prioritize_can_send(s)
       /\ store' = [store EXCEPT ![id] = Prioritize_pop_frame(s)]
       /\ ret' = Ret("poll_complete", id, "Ok", s.state)
       /\ UNCHANGED <<is_server, next_stream_id, init_window_sz, counts, flow,
                      issued, inserted, resets>>

\* ------------------------------------------------------- Send::reserve_capacity
reserve_capacity(id, cap) ==
    /\ live
    /\ store' = [store EXCEPT ![id] = Prioritize_reserve_capacity(@, cap)]
    /\ ret' = Ret("reserve_capacity", id, "Ok", store[id].state)
    /\ UNCHANGED <<is_server, next_stream_id, init_window_sz, counts, flow,
                   issued, inserted, resets>>

\* ------------------------------------------------------- Send::poll_capacity
\* poll_capacity that leaves send_capacity_inc set.
Send_poll_capacity_sticky(s) ==
    IF ~is_send_streaming(s)
    THEN [val |-> "Ready(None)", n |-> 0, stream |-> s]
    ELSE IF ~s.send_capacity_inc
    THEN [val |-> "NotReady", n |-> 0, stream |-> s]
    ELSE [val |-> "Ready(Some)", n |-> capacity(s), stream |-> s]

\* poll_capacity that looks at send_capacity_inc before the stream state.
Send_poll_capacity_flag_first(s) ==
    IF s.send_capacity_inc
    THEN LET s1 == [s EXCEPT !.send_capacity_inc = FALSE]
         IN [val |-> "Ready(Some)", n |-> capacity(s1), stream |-> s1]
    ELSE IF ~is_send_streaming(s)
    THEN [val |-> "Ready(None)", n |-> 0, stream |-> s]
    ELSE [val |-> "NotReady", n |-> 0, stream |-> s]

Send_poll_capacity(s) ==
    IF ~is_send_streaming(s)
    THEN [val |-> "Ready(None)", n |-> 0, stream |-> s]
    ELSE IF ~s.send_capacity_inc
    THEN [val |-> "NotReady", n |-> 0, stream |-> s]
    ELSE LET s1 == [s EXCEPT !.send_capacity_inc = FALSE]
         IN [val |-> "Ready(Some)", n |-> capacity(s1), stream |-> s1]

poll_capacity(id) ==
    LET r == Send_poll_capacity(store[id])
    IN /\ live
       /\ store' = [store EXCEPT ![id] = r.stream]
       /\ ret' = RetN("poll_capacity", id, r.val, r.n, store[id].state)
       /\ UNCHANGED <<is_server, next_stream_id, init_window_sz, counts, flow,
                      issued, inserted, resets>>

\* ------------------------------------------- Send::recv_connection_window_update
Prioritize_recv_connection_window_update(fl, inc) ==
    IF fl + inc > MaxWindow
    THEN [err |-> "FlowControlError", flow |-> fl]
    ELSE [err |-> "Ok", flow |-> fl + inc]

recv_connection_window_update(inc) ==
    /\ live
    /\ LET r == Prioritize_recv_connection_window_update(flow, inc)
       IN /\ flow' = r.flow
          /\ ret' = Ret("recv_connection_window_update", 0, r.err, "-")
    /\ UNCHANGED <<is_server, next_stream_id, init_window_sz, counts, store,
                   issued, inserted, resets>>

\* ------------------------------------------- Send::recv_stream_window_update
\* recv_stream_window_update that returns the error without resetting.
Send_recv_stream_window_update_no_reset(s, fl, sz) ==
    LET u == Prioritize_recv_stream_window_update(s, sz)
    IN [err |-> u.err, stream |-> u.stream, flow |-> fl, effective |-> FALSE]

\* recv_stream_window_update that resets the stream and then returns Ok.
Send_recv_stream_window_update_swallow(s, fl, sz) ==
    LET u == Prioritize_recv_stream_window_update(s, sz)
    IN IF u.err # "Ok"
       THEN LET r == Send_send_reset(s, fl, "FlowControlError")
            IN [err |-> "Ok", stream |-> r.stream, flow |-> r.flow,
                effective |-> r.effective]
       ELSE [err |-> "Ok", stream |-> u.stream, flow |-> fl, effective |-> FALSE]

Send_recv_stream_window_update(s, fl, sz) ==
    LET u == Prioritize_recv_stream_window_update(s, sz)
    IN IF u.err # "Ok"
       THEN LET r == Send_send_reset(s, fl, "FlowControlError")
            IN [err |-> u.err, stream |-> r.stream, flow |-> r.flow,
                effective |-> r.effective]
       ELSE [err |-> "Ok", stream |-> u.stream, flow |-> fl, effective |-> FALSE]

recv_stream_window_update(id, sz) ==
    LET r == Send_recv_stream_window_update(store[id], flow, sz)
    IN /\ live
       /\ store' = [store EXCEPT ![id] = r.stream]
       /\ flow' = r.flow
       /\ resets' = [resets EXCEPT ![id] = IF r.effective THEN @ + 1 ELSE @]
       /\ ret' = Ret("recv_stream_window_update", id, r.err, store[id].state)
       /\ UNCHANGED <<is_server, next_stream_id, init_window_sz, counts,
                      issued, inserted>>

\* ------------------------------------------------------- Store::for_each
\* The orders in which for_each may visit the tracked streams.
Orders(ids) ==
    {o \in [1..Cardinality(ids) -> ids] : \A i, j \in DOMAIN o : i # j => o[i] # o[j]}

\* The shrink closure of apply_remote_settings, which stops at zero.
settings_dec_stream_clamped(s, dec) ==
    IF available(s) < dec THEN [s EXCEPT !.send_flow = 0] ELSE dec_window(s, dec)

\* The shrink closure of apply_remote_settings on one stream.
settings_dec_stream(s, dec) == dec_window(s, dec)

\* for_each over the shrink closure (the closure never fails).
RECURSIVE for_each_dec(_, _, _)
for_each_dec(st, order, dec) ==
    IF order = <<>>
    THEN st
    ELSE for_each_dec([st EXCEPT ![Head(order)] = settings_dec_stream(@, dec)],
                      Tail(order), dec)

\* for_each over the grow closure of apply_remote_settings: stops at the
\* first stream whose window update fails.  visited counts the streams the
\* closure ran on; rst is the set of streams it reset.
RECURSIVE for_each_inc(_, _, _, _, _)
for_each_inc(st, fl, order, inc, visited) ==
    IF order = <<>>
    THEN [err |-> "Ok", store |-> st, flow |-> fl, visited |-> visited, rst |-> {}]
    ELSE LET id == Head(order)
             r == Send_recv_stream_window_update(st[id], fl, inc)
             st1 == [st EXCEPT ![id] = r.stream]
         IN IF r.err # "Ok"
            THEN [err |-> r.err, store |-> st1, flow |-> r.flow,
                  visited |-> visited + 1,
                  rst |-> IF r.effective THEN {id} ELSE {}]
            ELSE for_each_inc(st1, r.flow, Tail(order), inc, visited + 1)

\* ------------------------------------------- Send::apply_remote_settings
\* apply_remote_settings that keeps the old initial window when the sweep fails.
apply_remote_settings_after_sweep(val, order) ==
    /\ live
    /\ IF val = None
       THEN /\ ret' = RetN("apply_remote_settings", 0, "Ok", val, "absent")
            /\ UNCHANGED <<init_window_sz, store, flow, resets>>
       ELSE LET old_val == init_window_sz
            IN /\ IF val < old_val
                  THEN /\ store' = for_each_dec(store, order, old_val - val)
                       /\ ret' = RetN("apply_remote_settings", 0, "Ok", val, "shrink")
                       /\ UNCHANGED <<flow, resets>>
                  ELSE IF val > old_val
                  THEN LET r == for_each_inc(store, flow, order, val - old_val, 0)
                       IN /\ store' = r.store
                          /\ flow' = r.flow
                          /\ resets' = [i \in DOMAIN resets |->
                                          IF i \in r.rst THEN resets[i] + 1
                                                         ELSE resets[i]]
                          /\ ret' = RetV("apply_remote_settings",
                                         IF r.err = "Ok" THEN 0 ELSE order[r.visited],
                                         IF r.err = "Ok" THEN "Ok"
                                         ELSE "Connection(FlowControlError)",
                                         val, "grow", r.visited)
                  ELSE /\ ret' = RetN("apply_remote_settings", 0, "Ok", val, "same")
                       /\ UNCHANGED <<store, flow, resets>>
               /\ init_window_sz' = IF ret'.val = "Ok" THEN val ELSE old_val
    /\ UNCHANGED <<is_server, next_stream_id, counts, issued, inserted>>

\* apply_remote_settings that undoes the sweep when a stream's update fails.
apply_remote_settings_rollback(val, order) ==
    /\ live
    /\ IF val = None
       THEN /\ ret' = RetN("apply_remote_settings", 0, "Ok", val, "absent")
            /\ UNCHANGED <<init_window_sz, store, flow, resets>>
       ELSE LET old_val == init_window_sz
            IN /\ init_window_sz' = val
               /\ IF val < old_val
                  THEN /\ store' = for_each_dec(store, order, old_val - val)
                       /\ ret' = RetN("apply_remote_settings", 0, "Ok", val, "shrink")
                       /\ UNCHANGED <<flow, resets>>
                  ELSE IF val > old_val
                  THEN LET r == for_each_inc(store, flow, order, val - old_val, 0)
                       IN /\ store' = IF r.err = "Ok" THEN r.store ELSE store
                          /\ flow' = IF r.err = "Ok" THEN r.flow ELSE flow
                          /\ resets' = resets
                          /\ ret' = RetV("apply_remote_settings",
                                         IF r.err = "Ok" THEN 0 ELSE order[r.visited],
                                         IF r.err = "Ok" THEN "Ok"
                                         ELSE "Connection(FlowControlError)",
                                         val, "grow", r.visited)
                  ELSE /\ ret' = RetN("apply_remote_settings", 0, "Ok", val, "same")
                       /\ UNCHANGED <<store, flow, resets>>
    /\ UNCHANGED <<is_server, next_stream_id, counts, issued, inserted>>

apply_remote_settings(val, order) ==
    /\ live
    /\ IF val = None
       THEN /\ ret' = RetN("apply_remote_settings", 0, "Ok", val, "absent")
            /\ UNCHANGED <<init_window_sz, store, flow, resets>>
       ELSE LET old_val == init_window_sz
            IN /\ init_window_sz' = val
               /\ IF val < old_val
                  THEN /\ store' = for_each_dec(store, order, old_val - val)
                       /\ ret' = RetN("apply_remote_settings", 0, "Ok", val, "shrink")
                       /\ UNCHANGED <<flow, resets>>
                  ELSE IF val > old_val
                  THEN LET r == for_each_inc(store, flow, order, val - old_val, 0)
                       IN /\ store' = r.store
                          /\ flow' = r.flow
                          /\ resets' = [i \in DOMAIN resets |->
                                          IF i \in r.rst THEN resets[i] + 1
                                                         ELSE resets[i]]
                          /\ ret' = RetV("apply_remote_settings",
                                         IF r.err = "Ok" THEN 0 ELSE order[r.visited],
                                         IF r.err = "Ok" THEN "Ok"
                                         ELSE "Connection(FlowControlError)",
                                         val, "grow", r.visited)
                  ELSE /\ ret' = RetN("apply_remote_settings", 0, "Ok", val, "same")
                       /\ UNCHANGED <<store, flow, resets>>
    /\ UNCHANGED <<is_server, next_stream_id, counts, issued, inserted>>

\* ------------------------------------------------------- Send::ensure_not_idle
\* ensure_not_idle that lets the next unallocated id through.
Send_ensure_not_idle_strict(id) == IF id > next_stream_id THEN "ProtocolError" ELSE "Ok"

Send_ensure_not_idle(id) == IF id >= next_stream_id THEN "ProtocolError" ELSE "Ok"

\* The ids the peer's frames name: the last id issued and the first idle one.
ProbeIds == {id \in {next_stream_id - 2, next_stream_id} : id > 0}

ensure_not_idle(id) ==
    /\ live
    /\ ret' = Ret("ensure_not_idle", id, Send_ensure_not_idle(id), "-")
    /\ UNCHANGED <<is_server, next_stream_id, init_window_sz, counts, store,
                   flow, issued, inserted, resets>>

Next ==
    \/ open
    \/ store_insert
    \/ \E id \in DOMAIN store : release(id)
    \/ \E id \in DOMAIN store : peer_close(id)
    \/ \E id \in DOMAIN store, e \in BOOLEAN : send_headers(id, e)
    \/ \E id \in DOMAIN store, r \in UserReasons : send_reset(id, r)
    \/ \E id \in DOMAIN store, n \in DataLens, e \in BOOLEAN : send_data(id, n, e)
    \/ \E id \in DOMAIN store : send_trailers(id)
    \/ \E id \in DOMAIN store : poll_complete(id)
    \/ \E id \in DOMAIN store, c \in 0..1 : reserve_capacity(id, c)
    \/ \E id \in DOMAIN store : poll_capacity(id)
    \/ \E n \in Incs : recv_connection_window_update(n)
    \/ \E id \in DOMAIN store, n \in Incs : recv_stream_window_update(id, n)
    \/ \E v \in SettingsVals, o \in Orders(DOMAIN store) : apply_remote_settings(v, o)
    \/ \E id \in ProbeIds : ensure_not_idle(id)

Spec == Init /\ [][Next]_vars

\* A connection that lets every stream be open at once, driven through the
\* operations that touch the windows of several streams.
InitSweep ==
    /\ is_server = FALSE
    /\ next_stream_id = first_stream_id
    /\ init_window_sz = 1
    /\ counts = [num_send_streams |-> 0, max_send_streams |-> 2]
    /\ store = <<>>
    /\ flow = 1
    /\ issued = <<>>
    /\ inserted = 0
    /\ resets = <<>>
    /\ ret = Ret("new", 0, "Ok", "-")

NextSweep ==
    \/ open
    \/ store_insert
    \/ \E id \in DOMAIN store, e \in BOOLEAN : send_headers(id, e)
    \/ \E id \in DOMAIN store, r \in UserReasons : send_reset(id, r)
    \/ \E id \in DOMAIN store : poll_complete(id)
    \/ \E id \in DOMAIN store : peer_close(id)
    \/ \E id \in DOMAIN store, n \in Incs : recv_stream_window_update(id, n)
    \/ \E v \in SettingsVals, o \in Orders(DOMAIN store) : apply_remote_settings(v, o)

SpecSweep == InitSweep /\ [][NextSweep]_vars
\* ======================================================================
\* Properties
\* ======================================================================

\* C1: the ids returned by successful open calls start at the role's first
\* id (1 for a client, 2 for a server), each is the previous one plus 2, all
\* have the role's parity, and no id is returned twice.
C1_StreamIdsIncreaseByTwo ==
    /\ Len(issued) > 0 => issued[1] = first_stream_id
    /\ \A i \in 1..Len(issued) : issued[i] % 2 = first_stream_id % 2
    /\ \A i \in 1..(Len(issued) - 1) :
          issued[i + 1] > issued[i] /\ issued[i + 1] = issued[i] + 2
    /\ \A i, j \in 1..Len(issued) : i # j => issued[i] # issued[j]
    /\ (ret.op = "open" /\ ret.val = "Ok") =>
          (Len(issued) > 0 /\ ret.id = issued[Len(issued)])

\* A second successful open has just returned 3.
C1_Witness ==
    /\ ret.op = "open" /\ ret.val = "Ok" /\ ret.id = 3
    /\ issued = <<1, 3>>

\* C2: an open that fails leaves next_stream_id and the local-stream counter
\* as they were, so next_stream_id is always the first id plus twice the
\* number of successful opens: a rejected open consumes no id.
C2_RejectedOpenConsumesNoId ==
    /\ [][(ret'.op = "open" /\ ret'.val # "Ok") =>
             /\ next_stream_id' = next_stream_id
             /\ counts' = counts
             /\ issued' = issued]_vars
    /\ [](next_stream_id = first_stream_id + 2 * Len(issued))

\* With a limit of one stream, open returned 1 and the next open was Rejected.
C2_Witness ==
    /\ ret.op = "open" /\ ret.val = "Rejected"
    /\ counts.max_send_streams = 1
    /\ issued = <<1>>
    /\ next_stream_id = 3

\* C3: for every tracked stream, capacity is max(0, available - buffered):
\* never negative, and 0 when the window is negative or not above the
\* buffered byte count (100 and 40 give 60; 150 less gives 0).
C3_CapacityIsClampedDifference ==
    /\ \A id \in DOMAIN store :
          /\ capacity(store[id]) =
                Max(0, store[id].send_flow - store[id].buffered_send_data)
          /\ capacity(store[id]) >= 0
    /\ capacity([Stream_new(100) EXCEPT !.buffered_send_data = 40]) = 60
    /\ capacity(dec_window([Stream_new(100) EXCEPT !.buffered_send_data = 40], 150)) = 0

\* A settings shrink has just driven a stream's window below zero while the
\* stream has bytes buffered.
C3_Witness ==
    /\ ret.op = "apply_remote_settings" /\ ret.pre = "shrink"
    /\ \E id \in DOMAIN store :
          /\ store[id].send_flow < 0
          /\ store[id].buffered_send_data > 0
          /\ capacity(store[id]) = 0
\* A stream the guards of send_reset leave alone.
reset_is_noop(s) == is_reset(s) \/ (is_closed(s) /\ s.pending_send = <<>>)

\* C4: send_reset on a stream that is already reset, or closed with an empty
\* queue, changes nothing; so a stream is effectively reset at most once and
\* its queue never holds more than one RST_STREAM frame.
C4_ResetIdempotent ==
    /\ [][\A id \in DOMAIN store :
             (ret'.op = "send_reset" /\ ret'.id = id /\ reset_is_noop(store[id]))
                => UNCHANGED state_vars]_vars
    /\ [](\A id \in DOMAIN store :
             /\ resets[id] <= 1
             /\ Cardinality({i \in DOMAIN store[id].pending_send :
                               store[id].pending_send[i].kind = "Reset"}) <= 1
             /\ is_reset(store[id]) <=> resets[id] = 1)

\* send_reset was just called on a stream that an earlier call had reset and
\* whose RST_STREAM frame is still the only frame queued.
C4_Witness ==
    /\ ret.op = "send_reset" /\ ret.pre = "Reset"
    /\ ret.id \in DOMAIN store
    /\ resets[ret.id] = 1
    /\ store[ret.id].pending_send = <<ResetFrame("Cancel")>>

\* C5: a settings frame that lowers the initial window by D lowers every
\* tracked stream's window by exactly D, below zero where the window was
\* smaller than D, and changes nothing else of the stream.
C5_ShrinkIsNotClamped ==
    [][(ret'.op = "apply_remote_settings" /\ init_window_sz' < init_window_sz) =>
          /\ DOMAIN store' = DOMAIN store
          /\ \A id \in DOMAIN store :
                store'[id] = [store[id] EXCEPT
                                !.send_flow = @ - (init_window_sz - init_window_sz')]]_vars

\* A shrink has just left one of two tracked streams with a negative window.
C5_Witness ==
    /\ ret.op = "apply_remote_settings" /\ ret.pre = "shrink"
    /\ Cardinality(DOMAIN store) = 2
    /\ \E id \in DOMAIN store : store[id].send_flow < 0
    /\ \E id \in DOMAIN store : store[id].send_flow >= 0

\* C6 as stated: after a growth by I every tracked stream's window is up by
\* I, except that a stream whose window would pass the maximum is reset with
\* FlowControlError.
C6_GrowAllOrResetOffender ==
    [][(ret'.op = "apply_remote_settings" /\ init_window_sz' > init_window_sz) =>
          LET inc == init_window_sz' - init_window_sz
          IN \A id \in DOMAIN store :
                IF store[id].send_flow + inc > MaxWindow
                THEN /\ store'[id].state = "Reset"
                     /\ store'[id].reason = "FlowControlError"
                ELSE store'[id].send_flow = store[id].send_flow + inc]_vars

\* C6 amended: the growth sweep raises the window of each stream it visits
\* by I until the first stream whose window would pass the maximum; that
\* stream is reset with FlowControlError unless send_reset leaves it alone
\* (already reset, or closed with an empty queue), the call returns a
\* connection error, and every other stream is either raised by I (visited
\* before) or unchanged (not visited).
C6_GrowFailFast ==
    [][(ret'.op = "apply_remote_settings" /\ init_window_sz' > init_window_sz) =>
          LET inc == init_window_sz' - init_window_sz
              fits(id) == store[id].send_flow + inc <= MaxWindow
              grown(id) ==
                 /\ fits(id)
                 /\ store'[id].send_flow = store[id].send_flow + inc
                 /\ store'[id].state = store[id].state
                 /\ store'[id].reason = store[id].reason
                 /\ store'[id].pending_send = store[id].pending_send
          IN /\ DOMAIN store' = DOMAIN store
             /\ IF \A id \in DOMAIN store : fits(id)
                THEN /\ ret'.val = "Ok"
                     /\ \A id \in DOMAIN store : grown(id)
                ELSE /\ ret'.val = "Connection(FlowControlError)"
                     /\ ret'.id \in DOMAIN store
                     /\ ~fits(ret'.id)
                     /\ IF reset_is_noop(store[ret'.id])
                        THEN store'[ret'.id] = store[ret'.id]
                        ELSE /\ store'[ret'.id].state = "Reset"
                             /\ store'[ret'.id].reason = "FlowControlError"
                             /\ store'[ret'.id].pending_send =
                                   <<ResetFrame("FlowControlError")>>
                     /\ \A id \in DOMAIN store \ {ret'.id} :
                           grown(id) \/ store'[id] = store[id]]_vars

\* A growth sweep has just failed on one of two streams and reset it, while
\* the other stream is not reset.
C6_Witness ==
    /\ ret.op = "apply_remote_settings" /\ ret.val = "Connection(FlowControlError)"
    /\ Cardinality(DOMAIN store) = 2
    /\ ret.id \in DOMAIN store
    /\ store[ret.id].state = "Reset" /\ store[ret.id].reason = "FlowControlError"
    /\ \E id \in DOMAIN store : ~is_reset(store[id])

\* C7: ensure_not_idle fails for every id at or above next_stream_id,
\* succeeds for every id a successful open returned, and changes no state.
C7_EnsureNotIdle ==
    /\ [](\A id \in 1..(next_stream_id + 2) :
             /\ id >= next_stream_id => Send_ensure_not_idle(id) = "ProtocolError"
             /\ (\E i \in 1..Len(issued) : issued[i] = id)
                   => Send_ensure_not_idle(id) = "Ok")
    /\ [][ret'.op = "ensure_not_idle" =>
             /\ ret'.val = Send_ensure_not_idle(ret'.id)
             /\ UNCHANGED state_vars]_vars

\* ensure_not_idle has just accepted the second id that open returned.
C7_Witness ==
    /\ ret.op = "ensure_not_idle" /\ ret.val = "Ok"
    /\ issued = <<1, 3>>
    /\ ret.id = 3

\* C8 as stated: whenever recv_stream_window_update returns a flow-control
\* error the stream is reset with FlowControlError, whatever its state was;
\* when it returns Ok the call has not reset the stream.
C8_ErrorAlwaysResets ==
    [][\A id \in DOMAIN store :
          (ret'.op = "recv_stream_window_update" /\ ret'.id = id) =>
             IF ret'.val = "FlowControlError"
             THEN /\ store'[id].state = "Reset"
                  /\ store'[id].reason = "FlowControlError"
             ELSE /\ ret'.val = "Ok"
                  /\ store'[id].state = store[id].state]_vars

\* C8 amended: when recv_stream_window_update returns a flow-control error
\* the stream is reset with FlowControlError, unless it was already reset or
\* closed with an empty queue: then the call leaves it as it was.  When it
\* returns Ok the stream's state and reset reason are unchanged.
C8_ErrorResetsUnlessGuarded ==
    [][\A id \in DOMAIN store :
          (ret'.op = "recv_stream_window_update" /\ ret'.id = id) =>
             IF ret'.val = "FlowControlError"
             THEN IF reset_is_noop(store[id])
                  THEN store'[id] = store[id]
                  ELSE /\ store'[id].state = "Reset"
                       /\ store'[id].reason = "FlowControlError"
             ELSE /\ ret'.val = "Ok"
                  /\ store'[id].state = store[id].state
                  /\ store'[id].reason = store[id].reason]_vars

\* A window update on an open stream has just failed and reset the stream.
C8_Witness ==
    /\ ret.op = "recv_stream_window_update" /\ ret.val = "FlowControlError"
    /\ ret.pre = "Open"
    /\ ret.id \in DOMAIN store
    /\ store[ret.id].state = "Reset"
    /\ store[ret.id].reason = "FlowControlError"

\* The send half is closed: no DATA or trailers can follow.
send_closed(s) == s.state \in {"HalfClosedLocal", "Closed", "Reset"}

\* C9: send_trailers on a stream that is not send-streaming returns
\* UnexpectedFrameType and changes nothing; on a send-streaming stream it
\* returns Ok, closes the send half, appends one trailers frame and sets the
\* reserved capacity to 0.  A closed send half never reopens, so a second
\* send_trailers fails.
C9_TrailersOnlyWhileStreaming ==
    /\ [][\A id \in DOMAIN store :
             (ret'.op = "send_trailers" /\ ret'.id = id) =>
                IF is_send_streaming(store[id])
                THEN /\ ret'.val = "Ok"
                     /\ send_closed(store'[id])
                     /\ store' = [store EXCEPT ![id] =
                           [store[id] EXCEPT
                              !.state = store'[id].state,
                              !.pending_send = Append(@, TrailersFrame),
                              !.requested_send_capacity = 0]]
                     /\ UNCHANGED <<flow, next_stream_id, init_window_sz, counts>>
                ELSE /\ ret'.val = "UnexpectedFrameType"
                     /\ UNCHANGED state_vars]_vars
    /\ [][\A id \in DOMAIN store \cap DOMAIN store' :
             send_closed(store[id]) => send_closed(store'[id])]_vars

\* Headers without END_STREAM and then trailers: both frames are queued, the
\* send half is closed and nothing is reserved.
C9_Witness ==
    /\ ret.op = "send_trailers" /\ ret.val = "Ok"
    /\ ret.id \in DOMAIN store
    /\ store[ret.id].pending_send = <<HeadersFrame(FALSE), TrailersFrame>>
    /\ store[ret.id].state = "HalfClosedLocal"
    /\ store[ret.id].requested_send_capacity = 0

\* C10: on a send-streaming stream poll_capacity returns Ready(Some(capacity))
\* and clears send_capacity_inc when the flag is set, and returns NotReady and
\* changes nothing when it is not; so two polls in a row on a stream never
\* both return Ready(Some).
C10_PollCapacityConsumesFlag ==
    /\ [][\A id \in DOMAIN store :
             (ret'.op = "poll_capacity" /\ ret'.id = id
                 /\ is_send_streaming(store[id])) =>
                IF store[id].send_capacity_inc
                THEN /\ ret'.val = "Ready(Some)"
                     /\ ret'.n = capacity(store[id])
                     /\ store' = [store EXCEPT ![id].send_capacity_inc = FALSE]
                     /\ UNCHANGED <<flow, next_stream_id, init_window_sz, counts>>
                ELSE /\ ret'.val = "NotReady"
                     /\ UNCHANGED state_vars]_vars
    /\ [][(ret.op = "poll_capacity" /\ ret.val = "Ready(Some)"
             /\ ret'.op = "poll_capacity" /\ ret'.id = ret.id)
            => ret'.val # "Ready(Some)"]_vars

\* poll_capacity has just reported new capacity and cleared the flag.
C10_Witness ==
    /\ ret.op = "poll_capacity" /\ ret.val = "Ready(Some)" /\ ret.n > 0
    /\ ret.id \in DOMAIN store
    /\ ~store[ret.id].send_capacity_inc
    /\ ret.n = capacity(store[ret.id])

\* C11: open on a server returns UnexpectedFrameType whether or not the
\* concurrent-stream limit is reached (the role is checked first); on a
\* client it returns Rejected exactly when the counts say the limit is
\* reached, and Ok otherwise; open changes no stream, queue or credit.
C11_OpenRoleBeforeLimit ==
    [][ret'.op = "open" =>
          /\ is_server => ret'.val = "UnexpectedFrameType"
          /\ ~is_server =>
                /\ ret'.val = "Rejected" <=> ~can_inc_num_send_streams
                /\ ret'.val = "Ok" <=> can_inc_num_send_streams
          /\ UNCHANGED <<store, flow, init_window_sz>>]_vars

\* A server whose concurrent-stream limit is reached has just called open
\* and got UnexpectedFrameType, not Rejected.
C11_Witness ==
    /\ ret.op = "open" /\ ret.val = "UnexpectedFrameType"
    /\ is_server
    /\ counts.num_send_streams >= counts.max_send_streams

\* C12: apply_remote_settings with a value sets init_window_sz to that value,
\* also when the sweep over the streams returns an error; without a value it
\* changes neither init_window_sz nor any stream; no other operation changes
\* init_window_sz, so it always is the last value applied (or the configured
\* one).
C12_InitWindowMirrorsSettings ==
    /\ [][ret'.op = "apply_remote_settings" =>
             IF ret'.n = None
             THEN UNCHANGED <<init_window_sz, store, flow>>
             ELSE init_window_sz' = ret'.n]_vars
    /\ [][ret'.op # "apply_remote_settings" => init_window_sz' = init_window_sz]_vars
    /\ []((ret.op = "apply_remote_settings" /\ ret.n # None) => init_window_sz = ret.n)

\* A frame raising the initial window from 1 to 2 has just failed on a
\* stream, and init_window_sz is 2.
C12_Witness ==
    /\ ret.op = "apply_remote_settings" /\ ret.val = "Connection(FlowControlError)"
    /\ ret.n = 2
    /\ init_window_sz = 2
    /\ ret.id \in DOMAIN store

\* C13: once the send half of a stream is closed (END_STREAM headers or data,
\* trailers, or a reset) it stays closed, and every poll_capacity on such a
\* stream returns Ready(None) and changes nothing, whether send_capacity_inc
\* is set or not.
C13_NoCapacityAfterSendClosed ==
    /\ [][\A id \in DOMAIN store :
             (ret'.op = "poll_capacity" /\ ret'.id = id /\ send_closed(store[id])) =>
                /\ ret'.val = "Ready(None)"
                /\ UNCHANGED state_vars]_vars
    /\ [][\A id \in DOMAIN store :
             send_closed(store[id]) =>
                /\ id \in DOMAIN store' => ~is_send_streaming(store'[id])
                /\ id \notin DOMAIN store' => \A i \in DOMAIN store' : i > id]_vars
    /\ [](\A id \in DOMAIN store :
             send_closed(store[id]) => Send_poll_capacity(store[id]).val = "Ready(None)")

\* poll_capacity has just returned Ready(None) on a reset stream whose
\* send_capacity_inc flag is set.
C13_Witness ==
    /\ ret.op = "poll_capacity" /\ ret.val = "Ready(None)" /\ ret.pre = "Reset"
    /\ ret.id \in DOMAIN store
    /\ store[ret.id].send_capacity_inc

\* C14: a send_reset that the guards let through marks the stream reset with
\* the reason, clears its queue, reclaims its window, queues RST_STREAM and
\* only then reassigns the credit: when assign_connection_capacity runs the
\* stream is reset, its window is 0 and its queue is exactly the one
\* RST_STREAM frame with that reason; every frame queued before is gone.
C14_ResetStepOrder ==
    [][\A id \in DOMAIN store :
          (ret'.op = "send_reset" /\ ret'.id = id /\ ~reset_is_noop(store[id])) =>
             \E reason \in UserReasons :
                LET r == Send_send_reset(store[id], flow, reason)
                IN /\ r.effective
                   /\ r.at_assign.state = "Reset"
                   /\ r.at_assign.reason = reason
                   /\ r.at_assign.pending_send = <<ResetFrame(reason)>>
                   /\ available(r.at_assign) = 0
                   /\ store'[id] = r.at_assign
                   /\ store'[id].pending_send = <<ResetFrame(reason)>>
                   /\ flow' = assign_connection_capacity(flow, r.assigned)]_vars

\* send_reset has just been called on a stream with headers and trailers
\* queued: the queue now holds the RST_STREAM frame alone.
C14_Witness ==
    /\ ret.op = "send_reset" /\ ret.pre = "HalfClosedLocal" /\ ret.n = 2
    /\ ret.id \in DOMAIN store
    /\ store[ret.id].pending_send = <<ResetFrame("Cancel")>>
    /\ store[ret.id].state = "Reset"

\* C15: a stream that is reset, or closed with an empty queue, has capacity
\* 0, and no operation raises the window of such a stream.
C15_NoCapacityOnceResetOrClosed ==
    /\ [](\A id \in DOMAIN store :
             reset_is_noop(store[id]) => capacity(store[id]) = 0)
    /\ [][\A id \in DOMAIN store \cap DOMAIN store' :
             reset_is_noop(store[id]) =>
                available(store'[id]) <= available(store[id])]_vars

\* C16: a growth sweep that fails is fail-fast and is not rolled back: the
\* call returns a connection-level error, and there is a visiting order in
\* which every stream before the failing one had room for the delta and has
\* its window raised by that one delta, the failing one had no room, and
\* every stream after it is exactly as it was.
C16_SweepFailFastNoRollback ==
    [][(ret'.op = "apply_remote_settings" /\ init_window_sz' > init_window_sz
           /\ ret'.val # "Ok") =>
          LET inc == init_window_sz' - init_window_sz
              k == ret'.visited
          IN /\ ret'.val = "Connection(FlowControlError)"
             /\ DOMAIN store' = DOMAIN store
             /\ \E o \in Orders(DOMAIN store) :
                   /\ k \in 1..Len(o)
                   /\ o[k] = ret'.id
                   /\ available(store[o[k]]) + inc > MaxWindow
                   /\ \A j \in 1..(k - 1) :
                         /\ available(store[o[j]]) + inc <= MaxWindow
                         /\ available(store'[o[j]]) = available(store[o[j]]) + inc
                   /\ \A j \in (k + 1)..Len(o) : store'[o[j]] = store[o[j]]]_vars

\* A sweep raising the initial window to 2 has just failed on the second of
\* two streams, after it raised the window of the first, which keeps it.
C16_Witness ==
    /\ ret.op = "apply_remote_settings" /\ ret.val = "Connection(FlowControlError)"
    /\ ret.visited = 2
    /\ Cardinality(DOMAIN store) = 2
    /\ ret.n = 2
    /\ \E id \in DOMAIN store \ {ret.id} :
          ~is_reset(store[id]) /\ available(store[id]) = 2

\* C17: send_headers returns Ok exactly when send_open(end_stream) succeeds:
\* then the stream has the state send_open gave (send half closed when
\* END_STREAM is set) and one more frame, the HEADERS frame, at the end of
\* its queue, and nothing else has changed; otherwise send_open's error is
\* returned and no state has changed.
C17_HeadersQueuedIffTransition ==
    [][\A id \in DOMAIN store :
          (ret'.op = "send_headers" /\ ret'.id = id) =>
             \E e \in BOOLEAN :
                LET t == send_open(store[id].state, e)
                IN IF t.ok
                   THEN /\ ret'.val = "Ok"
                        /\ store' = [store EXCEPT ![id] =
                              [store[id] EXCEPT
                                 !.state = t.state,
                                 !.pending_send = Append(@, HeadersFrame(e))]]
                        /\ store'[id].state # store[id].state
                        /\ e => send_closed(store'[id])
                        /\ UNCHANGED <<flow, next_stream_id, init_window_sz, counts>>
                   ELSE /\ ret'.val = t.err
                        /\ ret'.val # "Ok"
                        /\ UNCHANGED state_vars]_vars

\* A second send_headers on a stream whose END_STREAM headers are queued has
\* just failed: the queue still holds the first frame alone.
C17_Witness ==
    /\ ret.op = "send_headers" /\ ret.val = "UnexpectedFrameType"
    /\ ret.pre = "HalfClosedLocal"
    /\ ret.id \in DOMAIN store
    /\ store[ret.id].pending_send = <<HeadersFrame(TRUE)>>
    /\ store[ret.id].state = "HalfClosedLocal"

\* The frame kind each emission operation queues.
emitted_kind(op) ==
    CASE op = "send_headers" -> "Headers"
      [] op = "send_data" -> "Data"
      [] op = "send_trailers" -> "Trailers"
      [] OTHER -> "Reset"

C19_ResetConservesCredit ==
    [][\A id \in DOMAIN store \cap DOMAIN store' :
          resets'[id] > resets[id] =>
             LET w == available(store[id])
                 r == Send_send_reset(store[id], flow, store'[id].reason)
             IN /\ r.effective
                /\ r.assigned = w
                /\ available(store'[id]) = 0
                /\ flow' = assign_connection_capacity(flow, w)
                /\ available(store'[id]) + flow' = w + flow]_vars

\* send_reset has just reset a stream whose window a settings shrink had
\* made negative: the pool, which started at 1, is down to 0.
C19_Witness ==
    /\ ret.op = "send_reset"
    /\ ret.id \in DOMAIN store
    /\ is_reset(store[ret.id]) /\ resets[ret.id] = 1
    /\ available(store[ret.id]) = 0
    /\ flow = 0
====
